---- MODULE Spec2Model ----
(***************************************************************************)
(* Model of src/pages/student/BookRoom.tsx: the BookRoom component, one    *)
(* instance per browser session, all sessions sharing the room_allocations *)
(* table of the external store.                                            *)
(*                                                                         *)
(* Every `await` of the two async functions is an interleaving point: the  *)
(* code between two awaits runs to completion (one JavaScript task), so    *)
(* each action below is the response of one awaited call together with the *)
(* code that runs up to the next await (catch and finally included).       *)
(***************************************************************************)
EXTENDS Integers, FiniteSets, Sequences, TLC

(* ------------------------------ bounds --------------------------------- *)

\* Largest value of the clock read by `new Date()` (line 120).
MaxTime == 2

\* Largest number of allocation records present before any session starts.
MaxSeed == 1

\* Largest number of handler invocations (mount effect + clicks) per session.
MaxInv == 3

(* --------------------------- the environment --------------------------- *)

\* Browser sessions showing the page, and the identity each is signed in as.
\* s1 and s2 are the same student in two tabs.
Sessions == {"s1", "s2", "s3"}

Students == {"A", "B"}

ident == [s \in Sessions |-> IF s = "s3" THEN "B" ELSE "A"]

\* `user` is null: supabase.auth.getUser() reported no authenticated user.
NoUser == "null"

\* end_date is null (dates are integers, null is kept apart from them).
Null == -1

\* `error` state is null.
NoError == "null"

FetchFailMsg == "Failed to fetch room details"

BookFailMsg == "Failed to book room. Please try again."

\* The rows of table rooms (interface Room).
RoomsTable ==
  { [id |-> "R1", room_number |-> "101", floor |-> 1, capacity |-> 2, price_per_month |-> 500],
    [id |-> "R2", room_number |-> "202", floor |-> 2, capacity |-> 1, price_per_month |-> 600] }

RoomIds == { r.id : r \in RoomsTable }

RoomById(rid) == CHOOSE r \in RoomsTable : r.id = rid

(* ------------------------------- state --------------------------------- *)

VARIABLES
  allocations,        \* table room_allocations: set of rows
  nextId,             \* next row id the store hands out
  uniqueRooms,        \* the store has a uniqueness constraint on open rooms
  now,                \* the clock read by new Date()
  loading,            \* useState(true), per session
  currentAllocation,  \* useState<RoomAllocation|null>: {} is null, {a} is a
  availableRooms,     \* useState<Room[]>([]): the rooms shown
  error,              \* useState<string|null>
  bookingInProgress,  \* useState(false)
  tasks,              \* per session: the handler invocations, in call order
  console             \* per session: what console.error was called with

vars == << allocations, nextId, uniqueRooms, now, loading, currentAllocation, availableRooms,
           error, bookingInProgress, tasks, console >>

storeVars == << allocations, nextId, uniqueRooms >>

\* Intended invariants of the data model, true of the store before any
\* session acts.
OneOpenPerRoom(allocs) ==
  \A r \in RoomIds :
    Cardinality({ a \in allocs : a.room_id = r /\ a.end_date = Null }) <= 1

OneOpenPerStudent(allocs) ==
  \A st \in Students :
    Cardinality({ a \in allocs : a.student_id = st /\ a.end_date = Null }) <= 1

SeedRows ==
  [ id : 1..MaxSeed, student_id : Students, room_id : RoomIds,
    start_date : {0}, end_date : {Null, 0} ]

SeedStores ==
  { S \in SUBSET SeedRows :
      /\ Cardinality(S) <= MaxSeed
      /\ { a.id : a \in S } = 1..Cardinality(S)
      /\ OneOpenPerRoom(S)
      /\ OneOpenPerStudent(S) }

\* A handler invocation: which handler, where it is suspended (pc), its
\* argument roomId (room), its locals `user` and the `err` bound by the catch
\* clause that ran, and whether its insert was accepted.
NewTask(kind, pc, room) ==
  [ kind |-> kind, pc |-> pc, room |-> room, user |-> NoUser, err |-> NoError,
    inserted |-> FALSE ]

\* State after the first render: the useState initial values, and the mount
\* effect has called fetchCurrentAllocationAndRooms, which is suspended in
\* its first await. The code does not know whether the store enforces a
\* uniqueness constraint; unique says which store the sessions talk to.
Start(unique) ==
  /\ allocations \in SeedStores
  /\ nextId = Cardinality(allocations) + 1
  /\ uniqueRooms = unique
  /\ now = 1
  /\ loading = [s \in Sessions |-> TRUE]
  /\ currentAllocation = [s \in Sessions |-> {}]
  /\ availableRooms = [s \in Sessions |-> {}]
  /\ error = [s \in Sessions |-> NoError]
  /\ bookingInProgress = [s \in Sessions |-> FALSE]
  /\ tasks = [s \in Sessions |-> << NewTask("fetch", "f_auth", "none") >>]
  /\ console = [s \in Sessions |-> {}]

\* A store that accepts every insert it receives and can process.
Init == Start(FALSE)

\* A store that rejects an insert for a room that has an open allocation.
InitUnique == Start(TRUE)

(* ----------------------------- the store ------------------------------- *)

\* .eq('student_id', u).order('start_date', {ascending: false}).limit(1)
\* .maybeSingle(): the rows the query may answer with; rows that tie on
\* start_date are in no defined order, so any of them may come first.
MostRecentOf(rows) ==
  { a \in rows : \A b \in rows : b.start_date <= a.start_date }

\* Variant: the query also filters on end_date being null.
AllocationQueryOpenOnly(u) ==
  MostRecentOf({ a \in allocations :
                   a.student_id = u /\ a.room_id \in RoomIds /\ a.end_date = Null })

AllocationQuery(u) ==
  MostRecentOf({ a \in allocations : a.student_id = u /\ a.room_id \in RoomIds })

\* from('room_allocations').select('room_id').is('end_date', null)
OpenRoomIds == { a.room_id : a \in { b \in allocations : b.end_date = Null } }

\* Variant: the subselect lacks .is('end_date', null).
AvailableRoomsQueryAnyAllocation ==
  { r \in RoomsTable : r.id \notin { a.room_id : a \in allocations } }

\* Variant: the rooms query lacks the .not(...) filter.
AvailableRoomsQueryAll == RoomsTable

\* from('rooms').select('*').not('id', 'in', <OpenRoomIds>)
AvailableRoomsQuery == { r \in RoomsTable : r.id \notin OpenRoomIds }

\* The answers the store may give to an insert for room rid (the
\* `bookingError` of line 115, or none): with the constraint, an insert for a
\* room with an open allocation is rejected; any insert may fail for another
\* reason (network, store down).
InsertAnswers(rid) ==
  IF uniqueRooms /\ rid \in OpenRoomIds
  THEN {"uniqueViolation", "bookingError"}
  ELSE {"ok", "bookingError"}

\* Variant: the row is written with end_date set to the start date.
NewAllocationEnded(u, rid) ==
  [ id |-> nextId, student_id |-> u, room_id |-> rid,
    start_date |-> now, end_date |-> now ]

\* The row written by insert({student_id, room_id, start_date, end_date}).
NewAllocation(u, rid) ==
  [ id |-> nextId, student_id |-> u, room_id |-> rid,
    start_date |-> now, end_date |-> Null ]

\* RoomAllocationResponse -> RoomAllocation (lines 72-78).
ToRoomAllocation(a) ==
  [ id |-> a.id, start_date |-> a.start_date, end_date |-> a.end_date,
    room |-> RoomById(a.room_id) ]

(* ------------------------------ the view ------------------------------- *)

\* The early returns of the render function (lines 137-209), in order.
View(s) ==
  IF loading[s] THEN "Loading"
  ELSE IF error[s] # NoError THEN "ErrorDisplay"
  ELSE IF currentAllocation[s] # {} THEN "AllocatedView"
  ELSE IF bookingInProgress[s] THEN "BookingInProgress"
  ELSE "AvailableRoomsView"

\* Variant: the early return on `error` (lines 145-153) is missing.
ButtonRenderedDespiteError(s, rid) ==
  /\ ~loading[s]
  /\ currentAllocation[s] = {}
  /\ \E r \in availableRooms[s] : r.id = rid

\* A "Book Now" button for room rid is on the page (lines 137-196).
ButtonRendered(s, rid) ==
  /\ ~loading[s]
  /\ error[s] = NoError
  /\ currentAllocation[s] = {}
  /\ \E r \in availableRooms[s] : r.id = rid

\* Variant: the button lacks the disabled attribute.
ButtonAlwaysEnabled(s) == TRUE

\* disabled={bookingInProgress} (line 197).
ButtonEnabled(s) == ~bookingInProgress[s]

(* ------------------- fetchCurrentAllocationAndRooms -------------------- *)

\* Variant: setLoading(false) sits at the end of the try block, not in a
\* finally clause, so an invocation that threw leaves loading set.
fetchCurrentAllocationAndRooms_noFinally(s, i, err) ==
  /\ loading' = IF err = NoError THEN [loading EXCEPT ![s] = FALSE] ELSE loading
  /\ bookingInProgress' =
       IF tasks[s][i].kind = "book"
       THEN [bookingInProgress EXCEPT ![s] = FALSE]
       ELSE bookingInProgress
  /\ tasks' = [tasks EXCEPT ![s][i].pc = "done", ![s][i].err = err]

\* finally { setLoading(false) } (line 104) and the return to the caller:
\* the mount effect drops the promise; handleBookRoom resumes after its
\* await (line 127) and runs its own finally (line 133) in the same task.
fetchCurrentAllocationAndRooms_finally(s, i, err) ==
  /\ loading' = [loading EXCEPT ![s] = FALSE]
  /\ bookingInProgress' =
       IF tasks[s][i].kind = "book"
       THEN [bookingInProgress EXCEPT ![s] = FALSE]
       ELSE bookingInProgress
  /\ tasks' = [tasks EXCEPT ![s][i].pc = "done", ![s][i].err = err]

\* What the throw site logs before it throws (lines 66 and 94).
ThrowSiteLog(err) ==
  IF err = "allocationError" THEN { <<"Error fetching allocation:", err>> }
  ELSE IF err = "roomsError" THEN { <<"Error fetching rooms:", err>> }
  ELSE {}

\* Variant: the catch clause logs and forgets setError.
fetchCurrentAllocationAndRooms_catchSilent(s, i, err) ==
  /\ console' = [console EXCEPT ![s] = @ \cup ThrowSiteLog(err) \cup { <<"Error:", err>> }]
  /\ error' = error
  /\ fetchCurrentAllocationAndRooms_finally(s, i, err)

\* Variant: the catch clause rethrows, so that the catch clause of a calling
\* handleBookRoom runs after it.
fetchCurrentAllocationAndRooms_catchRethrows(s, i, err) ==
  /\ console' = [console EXCEPT ![s] = @ \cup ThrowSiteLog(err) \cup { <<"Error:", err>> }
                     \cup (IF tasks[s][i].kind = "book"
                           THEN { <<"Error booking room:", err>> } ELSE {})]
  /\ error' = [error EXCEPT ![s] =
                 IF tasks[s][i].kind = "book" THEN BookFailMsg ELSE FetchFailMsg]
  /\ fetchCurrentAllocationAndRooms_finally(s, i, err)

\* catch (err) { console.error('Error:', err); setError(...) } (lines 100-102)
fetchCurrentAllocationAndRooms_catch(s, i, err) ==
  /\ console' = [console EXCEPT ![s] = @ \cup ThrowSiteLog(err) \cup { <<"Error:", err>> }]
  /\ error' = [error EXCEPT ![s] = FetchFailMsg]
  /\ fetchCurrentAllocationAndRooms_finally(s, i, err)

\* Lines 42-43: the answer of supabase.auth.getUser().
fetchCurrentAllocationAndRooms_getUser(s, i) ==
  /\ tasks[s][i].pc = "f_auth"
  /\ \E u \in {ident[s], NoUser} :
       IF u = NoUser
       THEN /\ fetchCurrentAllocationAndRooms_catch(s, i, "Not authenticated")
            /\ UNCHANGED << currentAllocation, availableRooms >>
       ELSE /\ tasks' = [tasks EXCEPT ![s][i].pc = "f_alloc", ![s][i].user = u]
            /\ UNCHANGED << loading, currentAllocation, availableRooms, error,
                            bookingInProgress, console >>
  /\ UNCHANGED << storeVars, now >>

\* Lines 46-80: the answer of the allocation query, an error or at most one row.
fetchCurrentAllocationAndRooms_allocation(s, i) ==
  /\ tasks[s][i].pc = "f_alloc"
  /\ \/ /\ fetchCurrentAllocationAndRooms_catch(s, i, "allocationError")
        /\ UNCHANGED << currentAllocation, availableRooms >>
     \/ /\ AllocationQuery(tasks[s][i].user) # {}
        /\ \E a \in AllocationQuery(tasks[s][i].user) :
             currentAllocation' =
               [currentAllocation EXCEPT ![s] = { ToRoomAllocation(a) }]
        /\ fetchCurrentAllocationAndRooms_finally(s, i, NoError)
        /\ UNCHANGED << availableRooms, error, console >>
     \/ /\ AllocationQuery(tasks[s][i].user) = {}
        /\ tasks' = [tasks EXCEPT ![s][i].pc = "f_rooms"]
        /\ UNCHANGED << loading, currentAllocation, availableRooms, error,
                        bookingInProgress, console >>
  /\ UNCHANGED << storeVars, now >>

\* Lines 83-98: the answer of the rooms query, an error or the rows.
fetchCurrentAllocationAndRooms_rooms(s, i) ==
  /\ tasks[s][i].pc = "f_rooms"
  /\ \/ /\ fetchCurrentAllocationAndRooms_catch(s, i, "roomsError")
        /\ UNCHANGED << currentAllocation, availableRooms >>
     \/ /\ availableRooms' = [availableRooms EXCEPT ![s] = AvailableRoomsQuery]
        /\ fetchCurrentAllocationAndRooms_finally(s, i, NoError)
        /\ UNCHANGED << currentAllocation, error, console >>
  /\ UNCHANGED << storeVars, now >>

(* --------------------------- handleBookRoom ---------------------------- *)

\* Variant: the catch clause tries the failed step again.
handleBookRoom_catchRetries(s, i, err) ==
  /\ console' = [console EXCEPT ![s] = @ \cup { <<"Error booking room:", err>> }]
  /\ error' = [error EXCEPT ![s] = BookFailMsg]
  /\ bookingInProgress' = bookingInProgress
  /\ tasks' = [tasks EXCEPT ![s][i].err = err]

\* catch and finally of handleBookRoom (lines 129-134).
handleBookRoom_catch(s, i, err) ==
  /\ console' = [console EXCEPT ![s] = @ \cup { <<"Error booking room:", err>> }]
  /\ error' = [error EXCEPT ![s] = BookFailMsg]
  /\ bookingInProgress' = [bookingInProgress EXCEPT ![s] = FALSE]
  /\ tasks' = [tasks EXCEPT ![s][i].pc = "done", ![s][i].err = err]

\* onClick={() => handleBookRoom(room.id)} (line 196) up to the first await
\* (lines 110-112).
handleBookRoom(s, rid) ==
  /\ ButtonRendered(s, rid)
  /\ ButtonEnabled(s)
  /\ Len(tasks[s]) < MaxInv
  /\ bookingInProgress' = [bookingInProgress EXCEPT ![s] = TRUE]
  /\ tasks' = [tasks EXCEPT ![s] = Append(@, NewTask("book", "b_auth", rid))]
  /\ UNCHANGED << storeVars, now, loading, currentAllocation, availableRooms,
                  error, console >>

\* Variant: line 113 is missing, the insert is issued whatever getUser says.
handleBookRoom_getUserUnchecked(s, i) ==
  /\ tasks[s][i].pc = "b_auth"
  /\ \E u \in {ident[s], NoUser} :
       tasks' = [tasks EXCEPT ![s][i].pc = "b_insert", ![s][i].user = u]
  /\ UNCHANGED << storeVars, now, loading, currentAllocation, availableRooms,
                  error, bookingInProgress, console >>

\* Lines 112-113: the answer of supabase.auth.getUser().
handleBookRoom_getUser(s, i) ==
  /\ tasks[s][i].pc = "b_auth"
  /\ \E u \in {ident[s], NoUser} :
       IF u = NoUser
       THEN handleBookRoom_catch(s, i, "Not authenticated")
       ELSE /\ tasks' = [tasks EXCEPT ![s][i].pc = "b_insert", ![s][i].user = u]
            /\ UNCHANGED << error, bookingInProgress, console >>
  /\ UNCHANGED << storeVars, now, loading, currentAllocation, availableRooms >>

\* Variant: line 127 is missing, a successful insert is not followed by a
\* re-resolution.
handleBookRoom_insertNoRefresh(s, i) ==
  /\ tasks[s][i].pc = "b_insert"
  /\ \E ans \in InsertAnswers(tasks[s][i].room) :
       IF ans = "ok"
       THEN /\ allocations' =
                 allocations \cup { NewAllocation(tasks[s][i].user, tasks[s][i].room) }
            /\ nextId' = nextId + 1
            /\ uniqueRooms' = uniqueRooms
            /\ bookingInProgress' = [bookingInProgress EXCEPT ![s] = FALSE]
            /\ tasks' = [tasks EXCEPT ![s][i].pc = "done", ![s][i].inserted = TRUE]
            /\ UNCHANGED << error, console >>
       ELSE /\ handleBookRoom_catch(s, i, ans)
            /\ UNCHANGED << storeVars >>
  /\ UNCHANGED << now, loading, currentAllocation, availableRooms >>

\* Variant: line 124 is missing, a rejected insert is followed by the
\* re-resolution all the same.
handleBookRoom_insertIgnoresError(s, i) ==
  /\ tasks[s][i].pc = "b_insert"
  /\ \E ans \in InsertAnswers(tasks[s][i].room) :
       /\ IF ans = "ok"
          THEN /\ allocations' =
                    allocations \cup { NewAllocation(tasks[s][i].user, tasks[s][i].room) }
               /\ nextId' = nextId + 1
               /\ uniqueRooms' = uniqueRooms
               /\ tasks' = [tasks EXCEPT ![s][i].pc = "f_auth", ![s][i].inserted = TRUE]
          ELSE /\ UNCHANGED storeVars
               /\ tasks' = [tasks EXCEPT ![s][i].pc = "f_auth", ![s][i].err = ans]
       /\ loading' = [loading EXCEPT ![s] = TRUE]
       /\ UNCHANGED << error, bookingInProgress, console >>
  /\ UNCHANGED << now, currentAllocation, availableRooms >>

\* Lines 115-127: the answer of the insert. The store accepts the row or
\* answers with an error; on success the code calls
\* fetchCurrentAllocationAndRooms, which runs to its first await.
handleBookRoom_insert(s, i) ==
  /\ tasks[s][i].pc = "b_insert"
  /\ \E ans \in InsertAnswers(tasks[s][i].room) :
       IF ans = "ok"
       THEN /\ allocations' =
                 allocations \cup { NewAllocation(tasks[s][i].user, tasks[s][i].room) }
            /\ nextId' = nextId + 1
            /\ uniqueRooms' = uniqueRooms
            /\ loading' = [loading EXCEPT ![s] = TRUE]
            /\ tasks' = [tasks EXCEPT ![s][i].pc = "f_auth", ![s][i].inserted = TRUE]
            /\ UNCHANGED << error, bookingInProgress, console >>
       ELSE /\ handleBookRoom_catch(s, i, ans)
            /\ UNCHANGED << storeVars, loading >>
  /\ UNCHANGED << now, currentAllocation, availableRooms >>

\* Time passes between two readings of new Date() (line 120).
Tick ==
  /\ now < MaxTime
  /\ now' = now + 1
  /\ UNCHANGED << storeVars, loading, currentAllocation, availableRooms, error,
                  bookingInProgress, tasks, console >>

Next ==
  \/ \E s \in Sessions : \E i \in 1..Len(tasks[s]) : fetchCurrentAllocationAndRooms_getUser(s, i)
  \/ \E s \in Sessions : \E i \in 1..Len(tasks[s]) : fetchCurrentAllocationAndRooms_allocation(s, i)
  \/ \E s \in Sessions : \E i \in 1..Len(tasks[s]) : fetchCurrentAllocationAndRooms_rooms(s, i)
  \/ \E s \in Sessions : \E rid \in RoomIds : handleBookRoom(s, rid)
  \/ \E s \in Sessions : \E i \in 1..Len(tasks[s]) : handleBookRoom_getUser(s, i)
  \/ \E s \in Sessions : \E i \in 1..Len(tasks[s]) : handleBookRoom_insert(s, i)
  \/ Tick

Spec == Init /\ [][Next]_vars

\* The answer of the call that session s is waiting for, whichever it is.
Responds(s) ==
  \E i \in 1..Len(tasks[s]) :
    \/ fetchCurrentAllocationAndRooms_getUser(s, i)
    \/ fetchCurrentAllocationAndRooms_allocation(s, i)
    \/ fetchCurrentAllocationAndRooms_rooms(s, i)
    \/ handleBookRoom_getUser(s, i)
    \/ handleBookRoom_insert(s, i)

\* Every call to the auth provider and to the store is answered in the end.
\* Nothing makes the user click or the clock advance.
SpecFair == Spec /\ \A s \in Sessions : WF_vars(Responds(s))

\* The same sessions in front of a store with the uniqueness constraint.
SpecUnique == InitUnique /\ [][Next]_vars

(* ======================= properties of the code ======================== *)

\* Invocation i of session s takes the step that leaves position pc.
Leaves(s, i, pc) ==
  /\ i <= Len(tasks[s])
  /\ tasks[s][i].pc = pc
  /\ tasks'[s][i].pc # pc

\* ... and no catch clause ran in that step.
LeavesOk(s, i, pc) ==
  /\ Leaves(s, i, pc)
  /\ tasks'[s][i].err = NoError

TaskIds(s) == 1..Len(tasks[s])

RowsOf(u) == { a \in allocations : a.student_id = u }

OpenRows == { a \in allocations : a.end_date = Null }

\* The bookings whose insert the store accepted: <<student, room>>.
Booked ==
  UNION { { << tasks[s][i].user, tasks[s][i].room >> :
              i \in { j \in TaskIds(s) : tasks[s][j].inserted } } : s \in Sessions }

(* ---- C1 ---- *)
\* C1: in every reachable state each room has at most one allocation whose
\* end_date is null, whatever the interleaving of resolves and bookings.
C1_NoDoubleBooking ==
  \A r \in RoomIds :
    \A a, b \in OpenRows : (a.room_id = r /\ b.room_id = r) => a = b

(* ---- C2 ---- *)
\* C2: in every reachable state each student has at most one allocation whose
\* end_date is null, also when the student acts from more than one session.
C2_OneActivePerStudent ==
  \A st \in Students :
    \A a, b \in OpenRows : (a.student_id = st /\ b.student_id = st) => a = b

C4_ResolveReturnsAvailableRooms ==
  [][ \A s \in Sessions : \A i \in TaskIds(s) :
        /\ ( LeavesOk(s, i, "f_alloc") /\ RowsOf(tasks[s][i].user) = {} ) =>
             /\ tasks'[s][i].pc = "f_rooms"
             /\ currentAllocation'[s] = {}
        /\ LeavesOk(s, i, "f_rooms") =>
             /\ availableRooms'[s] \subseteq RoomsTable
             /\ \A rid \in RoomIds :
                  (\E r \in availableRooms'[s] : r.id = rid)
                    <=> ~(\E a \in OpenRows : a.room_id = rid)
             /\ currentAllocation'[s] = {} ]_vars

\* A session shows some rooms and not others.
C4_Witness ==
  \E s \in Sessions :
    /\ View(s) = "AvailableRoomsView"
    /\ availableRooms[s] # {}
    /\ availableRooms[s] # RoomsTable

(* ---- C5 ---- *)
\* C5: once book(identity, roomId) has succeeded, every later resolve of that
\* identity whose allocation query answers without error shows an allocation
\* with end_date null that references roomId.
C5_BookThenResolveShowsRoom ==
  [][ \A s \in Sessions : \A i \in TaskIds(s) :
        LeavesOk(s, i, "f_alloc") =>
          \A bk \in Booked :
            bk[1] = tasks[s][i].user =>
              \E a \in currentAllocation'[s] :
                a.end_date = Null /\ a.room.id = bk[2] ]_vars

(* ---- C6 ---- *)
\* C6: when the auth provider answers a book with no user, the book ends with
\* the error 'Not authenticated' caught, the booking-failure message shown
\* and bookingInProgress cleared; no insert is issued (the invocation never
\* waits on an insert without a user, and no row without a student exists)
\* and the allocation rows are unchanged.
C6_UnauthenticatedBookInsertsNothing ==
  /\ [][ \A s \in Sessions : \A i \in TaskIds(s) :
           ( Leaves(s, i, "b_auth") /\ tasks'[s][i].user = NoUser ) =>
             /\ tasks'[s][i].pc = "done"
             /\ tasks'[s][i].err = "Not authenticated"
             /\ ~tasks'[s][i].inserted
             /\ << "Error booking room:", "Not authenticated" >> \in console'[s]
             /\ error'[s] = BookFailMsg
             /\ ~bookingInProgress'[s]
             /\ allocations' = allocations
             /\ nextId' = nextId ]_vars
  /\ [](\A a \in allocations : a.student_id # NoUser)

\* A book has ended on the missing user while the store holds no row.
C6_Witness ==
  \E s \in Sessions : \E i \in TaskIds(s) :
    /\ tasks[s][i].kind = "book"
    /\ tasks[s][i].pc = "done"
    /\ tasks[s][i].user = NoUser
    /\ View(s) = "ErrorDisplay"
    /\ allocations = {}

(* ---- C7 ---- *)
\* C7: when the allocation query or the rooms query of a resolve answers with
\* an error, the resolve ends there in the error view with the fetch-failure
\* message, and the step sets neither currentAllocation nor availableRooms.
C7_ResolveFailureExposesNothing ==
  [][ \A s \in Sessions : \A i \in TaskIds(s) :
        ( /\ tasks[s][i].pc \in {"f_alloc", "f_rooms"}
          /\ tasks'[s][i].err \in {"allocationError", "roomsError"} ) =>
            /\ tasks'[s][i].pc = "done"
            /\ tasks'[s][i].err =
                 (IF tasks[s][i].pc = "f_alloc" THEN "allocationError" ELSE "roomsError")
            /\ error'[s] = FetchFailMsg
            /\ View(s)' = "ErrorDisplay"
            /\ currentAllocation'[s] = currentAllocation[s]
            /\ availableRooms'[s] = availableRooms[s]
            /\ currentAllocation'[s] = {}
            /\ allocations' = allocations ]_vars

\* A resolve has failed on its rooms query.
C7_Witness ==
  \E s \in Sessions : \E i \in TaskIds(s) :
    /\ tasks[s][i].err = "roomsError"
    /\ View(s) = "ErrorDisplay"
    /\ error[s] = FetchFailMsg

(* ---- C8 ---- *)
\* C8: after a student's book of room R has succeeded and while that row is
\* open, the rooms query of another student's resolve, answering without
\* error, yields a room set without R that still holds every room that has no
\* open allocation.
C8_BookedRoomHiddenFromOthers ==
  [][ \A s \in Sessions : \A i \in TaskIds(s) :
        LeavesOk(s, i, "f_rooms") =>
          \A bk \in Booked :
            ( /\ bk[1] # tasks[s][i].user
              /\ \E a \in OpenRows : a.student_id = bk[1] /\ a.room_id = bk[2] ) =>
                /\ ~(\E r \in availableRooms'[s] : r.id = bk[2])
                /\ \A r \in RoomsTable :
                     (\A a \in OpenRows : a.room_id # r.id) => r \in availableRooms'[s] ]_vars

\* The scenario: student A has booked R1 in an empty store, and student B's
\* resolve then shows exactly R2.
C8_Witness ==
  /\ \E a \in allocations :
       /\ allocations = {a}
       /\ a.student_id = "A" /\ a.room_id = "R1" /\ a.start_date >= 1
  /\ << "A", "R1" >> \in Booked
  /\ View("s3") = "AvailableRoomsView"
  /\ { r.id : r \in availableRooms["s3"] } = {"R2"}

(* ---- C9 ---- *)
\* The transitions of the view that the state machine of the specification
\* lists.
ListedTransitions ==
  { << "Loading", "ErrorDisplay" >>, << "Loading", "AllocatedView" >>,
    << "Loading", "AvailableRoomsView" >>,
    << "AvailableRoomsView", "BookingInProgress" >>,
    << "BookingInProgress", "Loading" >> }

\* C9 as stated: the view of a session changes only along the listed
\* transitions; a booking in progress is left only towards Loading.
C9_OnlyListedTransitions ==
  [][ \A s \in Sessions :
        View(s)' # View(s) => << View(s), View(s)' >> \in ListedTransitions ]_vars

\* C9, amended: the view of a session changes only along the listed
\* transitions or from BookingInProgress to ErrorDisplay (the booking's own
\* auth check or insert failed); nothing leaves ErrorDisplay or AllocatedView.
C9_ViewTransitions ==
  [][ \A s \in Sessions :
        View(s)' # View(s) =>
          << View(s), View(s)' >> \in
             ListedTransitions \cup { << "BookingInProgress", "ErrorDisplay" >> } ]_vars

\* A booking has gone through Loading to the allocation view in one session
\* and has failed straight into the error view in another.
C9_Witness ==
  \E s, s2 \in Sessions :
    /\ Len(tasks[s]) = 2 /\ tasks[s][2].inserted /\ View(s) = "AllocatedView"
    /\ Len(tasks[s2]) = 2 /\ ~tasks[s2][2].inserted
    /\ View(s2) = "ErrorDisplay" /\ error[s2] = BookFailMsg

(* ---- C10 ---- *)
InFlight(s) == { i \in TaskIds(s) : tasks[s][i].pc # "done" }

\* C10: a session has at most one operation in flight, the flags show it
\* (loading or bookingInProgress is true while it runs), and a booking starts
\* only while both flags are false.
C10_OneOperationInFlight ==
  /\ [](\A s \in Sessions :
          /\ Cardinality(InFlight(s)) <= 1
          /\ InFlight(s) # {} => (loading[s] \/ bookingInProgress[s]))
  /\ [][ \A s \in Sessions :
           Len(tasks'[s]) > Len(tasks[s]) =>
             /\ ~loading[s] /\ ~bookingInProgress[s]
             /\ InFlight(s) = {} ]_vars

\* A booking is in flight after the mount resolve has ended.
C10_Witness ==
  \E s \in Sessions :
    /\ Len(tasks[s]) = 2
    /\ tasks[s][1].pc = "done"
    /\ tasks[s][2].pc = "b_insert"
    /\ bookingInProgress[s]

(* ---- C11 ---- *)
\* The bookings of room rid, as <<session, invocation>>.
BookingsOf(rid) ==
  UNION { { << s, i >> : i \in { j \in TaskIds(s) :
                                   tasks[s][j].kind = "book" /\ tasks[s][j].room = rid } }
          : s \in Sessions }

\* ... those whose handleBookRoom has returned.
ReturnedBookingsOf(rid) ==
  { b \in BookingsOf(rid) : tasks[b[1]][b[2]].pc = "done" }

\* ... those whose insert the store has answered.
AnsweredBookingsOf(rid) ==
  { b \in BookingsOf(rid) :
      /\ tasks[b[1]][b[2]].user # NoUser
      /\ tasks[b[1]][b[2]].pc \notin {"b_auth", "b_insert"} }

AcceptedBookingsOf(rid) ==
  { b \in BookingsOf(rid) : tasks[b[1]][b[2]].inserted }

\* A booking that lost: it has returned and its insert was not accepted.
LoserEndsInBookError(b) ==
  /\ error[b[1]] = BookFailMsg
  /\ View(b[1]) = "ErrorDisplay"
  /\ tasks[b[1]][b[2]].err \in {"uniqueViolation", "bookingError", "Not authenticated"}

\* C11 as stated: with a store that rejects every insert for a room with an
\* open allocation, once two or more bookings of the same room have had
\* their insert answered and have returned, exactly one insert has succeeded,
\* the room has at most one open allocation, and every loser is in the error
\* view with the booking-failure message.
C11_ExactlyOneBookingWins ==
  \A rid \in RoomIds :
    Cardinality(ReturnedBookingsOf(rid) \cap AnsweredBookingsOf(rid)) >= 2 =>
      /\ Cardinality(AcceptedBookingsOf(rid)) = 1
      /\ Cardinality({ a \in OpenRows : a.room_id = rid }) <= 1
      /\ \A b \in ReturnedBookingsOf(rid) \ AcceptedBookingsOf(rid) :
           LoserEndsInBookError(b)

\* C11, amended: with a store that rejects every insert for a room with an
\* open allocation, at most one insert per room succeeds, and exactly one
\* once some insert for the room was answered and none was refused for
\* another reason; the room keeps at most one open allocation; a session whose
\* insert is rejected ends there, without re-resolving and with the store
\* unchanged, in the error view with the booking-failure message.
C11_AtMostOneBookingWins ==
  /\ [](\A rid \in RoomIds :
          /\ Cardinality(AcceptedBookingsOf(rid)) <= 1
          /\ Cardinality({ a \in OpenRows : a.room_id = rid }) <= 1
          /\ ( /\ AnsweredBookingsOf(rid) # {}
               /\ \A b \in AnsweredBookingsOf(rid) :
                    tasks[b[1]][b[2]].err # "bookingError" )
               => Cardinality(AcceptedBookingsOf(rid)) = 1
          /\ \A b \in ReturnedBookingsOf(rid) \ AcceptedBookingsOf(rid) :
               LoserEndsInBookError(b))
  /\ [][ \A s \in Sessions : \A i \in TaskIds(s) :
           ( /\ Leaves(s, i, "b_insert")
             /\ tasks'[s][i].err \in {"uniqueViolation", "bookingError"} ) =>
               /\ tasks'[s][i].pc = "done"
               /\ ~tasks'[s][i].inserted
               /\ ~loading'[s]
               /\ ~bookingInProgress'[s]
               /\ allocations' = allocations ]_vars

\* Two sessions have booked the same room; the store accepted one insert and
\* rejected the other for the open allocation.
C11_Witness ==
  \E rid \in RoomIds : \E w, l \in ReturnedBookingsOf(rid) :
    /\ w[1] # l[1]
    /\ tasks[w[1]][w[2]].inserted
    /\ tasks[l[1]][l[2]].err = "uniqueViolation"
    /\ View(l[1]) = "ErrorDisplay"
    /\ Cardinality({ a \in OpenRows : a.room_id = rid }) = 1

(* ---- C12 ---- *)
\* C12: when the store answers the insert of a booking with an error, the
\* booking ends in that step with the booking-failure message shown; no
\* re-resolution starts, no further insert is attempted by that invocation or
\* by a new one started in the step, and the allocation rows are unchanged.
C12_FailedInsertEndsBooking ==
  /\ [][ \A s \in Sessions : \A i \in TaskIds(s) :
           ( /\ tasks[s][i].pc = "b_insert"
             /\ tasks'[s][i].err # NoError ) =>
               /\ tasks'[s][i].pc = "done"
               /\ error'[s] = BookFailMsg
               /\ View(s)' = "ErrorDisplay"
               /\ << "Error booking room:", tasks'[s][i].err >> \in console'[s]
               /\ Len(tasks'[s]) = Len(tasks[s])
               /\ allocations' = allocations
               /\ nextId' = nextId ]_vars
  /\ [][ \A s \in Sessions : \A i \in TaskIds(s) :
           tasks[s][i].pc = "done" => tasks'[s][i] = tasks[s][i] ]_vars
  /\ [](\A s \in Sessions : \A i \in TaskIds(s) :
          ( tasks[s][i].kind = "book" /\ tasks[s][i].err = "bookingError" ) =>
            /\ tasks[s][i].pc = "done"
            /\ ~tasks[s][i].inserted
            /\ i = Len(tasks[s]))

\* A booking has failed on its insert while another session's insert was
\* accepted.
C12_Witness ==
  \E s \in Sessions : \E i \in TaskIds(s) :
    /\ tasks[s][i].err = "bookingError"
    /\ error[s] = BookFailMsg
    /\ View(s) = "ErrorDisplay"
    /\ Cardinality(allocations) = 1
    /\ Booked # {}

(* ---- C13 ---- *)
\* C13: the allocation rows change only in the step in which the store
\* accepts the insert of a booking, and then by exactly one new row
\* {student: the identity getUser returned, room: roomId, start: now,
\* end: null} with a fresh id; every row already there stays as it is, and no
\* step of a resolve changes the rows.
C13_OnlyBookAddsOneRow ==
  [][ allocations' # allocations =>
        \E s \in Sessions : \E i \in TaskIds(s) :
          /\ tasks[s][i].kind = "book"
          /\ tasks[s][i].pc = "b_insert"
          /\ ~tasks[s][i].inserted /\ tasks'[s][i].inserted
          /\ tasks[s][i].user = ident[s]
          /\ \E a \in allocations' \ allocations :
               /\ allocations' = allocations \cup {a}
               /\ a.id \notin { b.id : b \in allocations }
               /\ a.student_id = ident[s]
               /\ a.room_id = tasks[s][i].room
               /\ a.start_date = now
               /\ a.end_date = Null ]_vars

\* The store holds a row from before the sessions started and a booked row.
C13_Witness ==
  /\ Booked # {}
  /\ \E a, b \in allocations : a.start_date = 0 /\ b.start_date >= 1 /\ b.end_date = Null

(* ---- C14 ---- *)
\* C14: the error of a session is none, the fetch-failure message or the
\* booking-failure message; a catch clause that runs while a resolve is
\* waiting (for getUser, the allocation query or the rooms query) sets the
\* fetch-failure message, one that runs while a booking is waiting for its
\* own getUser or insert sets the booking-failure message; a session that
\* shows the booking-failure message has a booking whose insert was not
\* accepted and none whose insert was.
C14_ErrorMessages ==
  /\ [](\A s \in Sessions :
          /\ error[s] \in {NoError, FetchFailMsg, BookFailMsg}
          /\ error[s] = BookFailMsg =>
               /\ \E i \in TaskIds(s) :
                    /\ tasks[s][i].kind = "book"
                    /\ tasks[s][i].err \in {"Not authenticated", "bookingError",
                                            "uniqueViolation"}
               /\ \A i \in TaskIds(s) : ~tasks[s][i].inserted
          /\ error[s] = FetchFailMsg =>
               \E i \in TaskIds(s) :
                 tasks[s][i].err \in {"Not authenticated", "allocationError",
                                      "roomsError"})
  /\ [][ \A s \in Sessions : \A i \in TaskIds(s) :
           ( tasks[s][i].err = NoError /\ tasks'[s][i].err # NoError ) =>
             /\ tasks[s][i].pc \in {"f_auth", "f_alloc", "f_rooms"}
                  => error'[s] = FetchFailMsg
             /\ tasks[s][i].pc \in {"b_auth", "b_insert"}
                  => error'[s] = BookFailMsg /\ ~tasks'[s][i].inserted ]_vars

\* A booking was accepted and its re-resolution failed: the session shows the
\* fetch-failure message.
C14_Witness ==
  \E s \in Sessions : \E i \in TaskIds(s) :
    /\ tasks[s][i].kind = "book"
    /\ tasks[s][i].inserted
    /\ tasks[s][i].pc = "done"
    /\ error[s] = FetchFailMsg

(* ---- C15 ---- *)
TerminalViews == {"ErrorDisplay", "AllocatedView", "AvailableRoomsView"}

\* Session s is at rest: no operation in flight, both flags false, one of the
\* three views shown.
Settled(s) ==
  /\ ~loading[s]
  /\ ~bookingInProgress[s]
  /\ InFlight(s) = {}
  /\ View(s) \in TerminalViews

\* C15: if every call to the auth provider and the store is answered, every
\* resolution ends with loading = false and every booking with
\* bookingInProgress = false, on every path: each session comes to rest in
\* one of ErrorDisplay, AllocatedView, AvailableRoomsView. A session starts
\* finitely many operations, so this is stated as: from some point on every
\* session is at rest for good (which gives loading ~> ~loading and
\* bookingInProgress ~> ~bookingInProgress).
C15_OperationsEnd ==
  <>[](\A s \in Sessions : Settled(s))

\* A booking and its re-resolution have both ended.
C15_Witness ==
  \E s \in Sessions :
    /\ Len(tasks[s]) = 2
    /\ tasks[s][2].inserted
    /\ tasks[s][2].pc = "done"
    /\ ~loading[s] /\ ~bookingInProgress[s]
    /\ View(s) \in TerminalViews

(* ---- C16 ---- *)
\* C16: once the error of a session is set it keeps its value; the session
\* shows ErrorDisplay from then on, has no call in flight, and starts no
\* invocation and issues no query or insert any more.
C16_ErrorIsFinal ==
  /\ [](\A s \in Sessions :
          error[s] # NoError => View(s) = "ErrorDisplay" /\ InFlight(s) = {})
  /\ [][ \A s \in Sessions :
           error[s] # NoError =>
             /\ error'[s] = error[s]
             /\ View(s)' = "ErrorDisplay"
             /\ tasks'[s] = tasks[s]
             /\ ~(\E rid \in RoomIds : ENABLED handleBookRoom(s, rid)) ]_vars

\* A session is in the error view after a failed booking, with the rooms it
\* was shown still in its state, while another session goes on.
C16_Witness ==
  \E s, s2 \in Sessions :
    /\ error[s] = BookFailMsg
    /\ availableRooms[s] # {}
    /\ View(s) = "ErrorDisplay"
    /\ s2 # s /\ InFlight(s2) # {}

(* ---- C17 ---- *)
\* The bookings of session s that got as far as issuing their insert.
InsertAttempts(s) ==
  { i \in TaskIds(s) :
      /\ tasks[s][i].kind = "book"
      /\ \/ tasks[s][i].pc = "b_insert"
         \/ tasks[s][i].inserted
         \/ tasks[s][i].err \in {"bookingError", "uniqueViolation"} }

\* C17: a session calls handleBookRoom at most once and so issues at most one
\* insert, for a room of the available-room set its resolve returned; once
\* the booking has returned the session shows AllocatedView or ErrorDisplay,
\* where no booking can be started.
C17_OneInsertPerSession ==
  \A s \in Sessions :
    /\ Cardinality(InsertAttempts(s)) <= 1
    /\ Cardinality({ i \in TaskIds(s) : tasks[s][i].kind = "book" }) <= 1
    /\ \A i \in TaskIds(s) :
         tasks[s][i].kind = "book" =>
           /\ \E r \in availableRooms[s] : r.id = tasks[s][i].room
           /\ tasks[s][i].pc = "done" =>
                /\ View(s) \in {"AllocatedView", "ErrorDisplay"}
                /\ \A rid \in RoomIds : ~ENABLED handleBookRoom(s, rid)

\* A session has issued its insert; another has had its booking accepted and
\* shows the allocation.
C17_Witness ==
  \E s, s2 \in Sessions :
    /\ s # s2
    /\ \E i \in InsertAttempts(s) : tasks[s][i].pc = "b_insert"
    /\ \E i \in InsertAttempts(s2) : tasks[s2][i].pc = "done" /\ tasks[s2][i].inserted
    /\ View(s2) = "AllocatedView"

====
